---- MODULE Spec2Model ----
(***************************************************************************)
(* Payment-lifecycle engine of the ctrip payment gateway.                  *)
(*                                                                         *)
(* The committed database (chain_states, payments), the row lock on a     *)
(* chain's ChainState row, and one SQLAlchemy session per worker cycle:   *)
(* the ORM objects a cycle has loaded, their loaded values and their      *)
(* current in-memory values, which the cycle's commit flushes as          *)
(* UPDATE ... WHERE id = <pk> for the attributes it changed.              *)
(*                                                                         *)
(* The blockchain is an input: the block contents are fixed at Init, the  *)
(* height an RPC node reports and the success of every RPC call are       *)
(* chosen at each call.                                                   *)
(***************************************************************************)
EXTENDS Integers, Sequences, FiniteSets, TLC

----------------------------------------------------------------------------
(* Bounds of the model *)

\* starts of the API server that are followed
MaxStartups == 2
\* payments the API creates
MaxCreated == 5
\* times the scheduler fires a job
MaxFired == 3
\* runs of the retry_failed_webhooks cron job that are followed
MaxRetryCycles == 2
\* highest block number of the modelled chain
MaxHead == 2
\* largest block_batch_size a ScannerService is constructed with
MaxBatch == 1
\* last tick of the clock
MaxTime == 1
\* bounds of the inputs of the scan-range computation checked on its own
MaxRangeCursor == 11
MaxRangeHead == 50
MaxRangeBatch == 20
\* the highest chain head and the largest batch size of the block-task runs
MaxGatherHead == 7
MaxGatherBatch == 6

Workers == {"w1", "w2"}
Chains == {"anvil"}

----------------------------------------------------------------------------
(* Data model *)

\* PaymentStatus values
PENDING == "pending"
DETECTED == "detected"
CONFIRMED == "confirmed"
PAID == "paid"
EXPIRED == "expired"
SETTLED == "settled"
FAILED == "failed"
PaymentStatus == {PENDING, DETECTED, CONFIRMED, PAID, EXPIRED, SETTLED, FAILED}

\* NULL of a nullable integer column (detected_in_block)
Null == 0 - 1
\* NULL of token_id / of a transaction's destination
NoToken == "none"
NoAddress == "none"
NoWorker == "nobody"

\* str.lower() on the address strings of the model
Lower(a) ==
    CASE a = "0xAA" -> "0xaa"
      [] a = "0xAa" -> "0xaa"
      [] a = "0xBB" -> "0xbb"
      [] a = "0xBb" -> "0xbb"
      [] a = "0xC0" -> "0xc0"
      [] a = "0xD0" -> "0xd0"
      [] OTHER -> a

\* The immutable columns of the payments rows (written by the payment-creation API)
Payment ==
    [p1 |-> [chain |-> "anvil", address |-> "0xAa", amount |-> 2,
             token_id |-> NoToken, expires_at |-> 1],
     p2 |-> [chain |-> "anvil", address |-> "0xBb", amount |-> 2,
             token_id |-> "t1", expires_at |-> 2],
     \* two token payments of another chain: p3 is to be paid in the token whose
     \* row has no contract address
     p3 |-> [chain |-> "bsc", address |-> "0xe3", amount |-> 2,
             token_id |-> "t2", expires_at |-> 2],
     p4 |-> [chain |-> "bsc", address |-> "0xe4", amount |-> 2,
             token_id |-> "t3", expires_at |-> 2]]
Payments == DOMAIN Payment

\* The tokens rows; address is NULL for a chain's native token
Token ==
    [t1 |-> [chain |-> "anvil", address |-> "0xC0"],
     t2 |-> [chain |-> "bsc", address |-> NoAddress],
     t3 |-> [chain |-> "bsc", address |-> "0xc3"]]
Tokens == DOMAIN Token

\* The mutable columns of a payments row as created (status default PENDING,
\* confirmations default 0, detected_in_block NULL)
NewRow == [status |-> PENDING, detected_in_block |-> Null, confirmations |-> 0]
\* A payment the session has not loaded
NotLoaded == [status |-> "unloaded", detected_in_block |-> Null, confirmations |-> 0]

\* Blocks the RPC can return: transactions (to, value) and Transfer logs
\* (emitting contract, topics, data)
Tx(to, value) == [to |-> to, value |-> value]
\* a 32-byte topic, by its last 20 bytes
Topic(a) == [low20 |-> a]
TransferLog(address, topics, data) == [address |-> address, topics |-> topics, data |-> data]
EmptyBlock == [transactions |-> << >>, logs |-> << >>]
BlockChoices ==
    { EmptyBlock,
      \* exact payment to p1, address in upper case
      [transactions |-> << Tx("0xAA", 2) >>, logs |-> << >>],
      \* contract creation, underpayment to p1, native transfer to p2's address
      [transactions |-> << Tx(NoAddress, 5), Tx("0xaa", 1), Tx("0xBB", 3) >>, logs |-> << >>],
      \* underpayment then overpayment to p1
      [transactions |-> << Tx("0xaa", 1), Tx("0xAa", 3) >>, logs |-> << >>],
      \* Transfer of exactly p2's amount to p2's address by p2's token contract
      [transactions |-> << >>,
       logs |-> << TransferLog("0xc0", << Topic("sig"), Topic("0xee"), Topic("0xBB") >>, 2) >>],
      \* Transfers to p2's address: by another contract, of too small a value,
      \* without a recipient topic, without data; and a Transfer to p1's address
      [transactions |-> << >>,
       logs |-> << TransferLog("0xD0", << Topic("sig"), Topic("0xee"), Topic("0xbb") >>, 5),
                   TransferLog("0xC0", << Topic("sig"), Topic("0xee"), Topic("0xbb") >>, 1),
                   TransferLog("0xC0", << Topic("sig"), Topic("0xbb") >>, 5),
                   TransferLog("0xC0", << Topic("sig"), Topic("0xee"), Topic("0xbb") >>, Null),
                   TransferLog("0xC0", << Topic("sig"), Topic("0xee"), Topic("0xaa") >>, 5) >>] }

VARIABLES
    cursor,      \* chain_states.last_scanned_block, committed, per chain
    lock,        \* holder of the FOR UPDATE row lock on the chain's ChainState row
    payments,    \* committed mutable columns of every payments row
    blocks,      \* block number -> block, what get_block returns
    now,         \* the clock
    batch,       \* block_batch_size the ScannerService instances are constructed with
    sess,        \* per worker: the running cycle and its session
    range_in,    \* input of the scan-range computation checked on its own
    range_out,   \* its result
    hooks,       \* the webhook dispatches the engine's cycles have made
    webhook,     \* the webhook dispatcher checked on its own: one event and its deliveries
    jobs,        \* the scheduled jobs checked on their own: the chains each job has worked
    api,         \* payment creation checked on its own: the hdwallet_addresses rows and the requests
    gather       \* the block tasks of one scan cycle checked on their own

vars == << cursor, lock, payments, blocks, now, batch, sess, range_in, range_out, hooks, webhook, jobs,
           api, gather >>

Blocks == 1..MaxHead

IdleSess ==
    [op |-> "idle", pc |-> "idle", chain |-> "anvil",
     from_block |-> 0, to_block |-> 0, latest_block |-> 0,
     todo |-> {}, failed |-> {}, fetched |-> {},
     orig |-> [p \in Payments |-> NotLoaded],
     cur |-> [p \in Payments |-> NotLoaded]]

\* No webhook event is being dispatched
NoWebhook ==
    [pc |-> "idle", secret |-> "", payload |-> [payment_id |-> "", status |-> ""],
     outcome |-> [kind |-> "none", status_code |-> 0],
     posted |-> FALSE, content |-> "", headers |-> {}, result |-> FALSE, raised |-> FALSE,
     attempts |-> 0, retry_cycles |-> 0]

\* No scheduled job has run
NoJobs ==
    [chains |-> << >>, fired |-> 0,
     startup |-> [runs |-> 0, found_scanned |-> FALSE],
     sweep |-> [pc |-> "idle", todo |-> << >>, ran |-> {}, raised |-> {}],
     listen |-> [pc |-> "idle", scanned |-> {}, confirmed |-> {}, raised |-> {}]]

\* the requests the payment API is serving
Requests == {"r1", "r2"}

\* No payment has been requested
NoApi ==
    [hd |-> << >>, created |-> << >>,
     req |-> [r \in Requests |-> [pc |-> "idle", next_index |-> 0]]]

\* No scan cycle is running its block tasks
NoGather ==
    [pc |-> "idle", from_block |-> 0, to_block |-> 0,
     waiting |-> {}, running |-> {}, done |-> {}]

Min(a, b) == IF a <= b THEN a ELSE b

\* The ORM objects the session holds
Loaded(s) == {p \in Payments : s.orig[p] # NotLoaded}

\* A fresh session holding the rows `ps` as the database has them now
Snapshot(ps) == [p \in Payments |-> IF p \in ps THEN payments[p] ELSE NotLoaded]

\* a commit that loses the payment updates
FlushNothing(s) == payments

\* session.commit(): the flush writes, for every loaded object, the attributes
\* whose value differs from the loaded one, by primary key
Flush(s) ==
    [p \in Payments |->
        IF s.orig[p] = NotLoaded THEN payments[p]
        ELSE [status |-> IF s.cur[p].status # s.orig[p].status
                         THEN s.cur[p].status ELSE payments[p].status,
              detected_in_block |->
                         IF s.cur[p].detected_in_block # s.orig[p].detected_in_block
                         THEN s.cur[p].detected_in_block
                         ELSE payments[p].detected_in_block,
              confirmations |->
                         IF s.cur[p].confirmations # s.orig[p].confirmations
                         THEN s.cur[p].confirmations
                         ELSE payments[p].confirmations]]

\* The session is closed: the transaction ends and its row lock is released
Release(w) == [c \in DOMAIN lock |-> IF lock[c] = w THEN NoWorker ELSE lock[c]]

----------------------------------------------------------------------------
(* ScannerService *)

\* settings.webhook_url: the merchant's endpoint is configured
webhook_url == "https://merchant.example/hook"

\* _dispatch_webhook: the dispatches of the payments ps, with the status
\* assigned to them; none when no URL is configured
dispatch_webhook(ps, status) ==
    IF webhook_url = "" THEN {} ELSE {<< p, status >> : p \in ps}

\* default of the confirmations_required constructor argument
confirmations_required == 1

\* the row is read without FOR UPDATE
load_chain_state_no_lock(c) == TRUE

\* the chain has a chain_states row
has_chain_state(c) == c \in DOMAIN cursor

\* _load_chain_state: SELECT ... FOR UPDATE returns once no other transaction
\* holds the row lock; without a row there is nothing to wait for
load_chain_state_ready(c) == has_chain_state(c) => lock[c] = NoWorker

\* scan_chain: the early return on an empty range, without the test
range_never_empty(from_block, to_block) == FALSE

\* scan_chain: the early return on an empty range
range_is_empty(from_block, to_block) == from_block > to_block

\* _calculate_scan_range, the to_block it computes from a reported height
scan_to_block(from_block, block_batch_size, latest_block) ==
    Min(from_block + block_batch_size, latest_block)

\* _calculate_scan_range: the empty range when the height query fails
calculate_scan_range(last_scanned_block, block_batch_size, rpc_ok, latest_block) ==
    IF ~rpc_ok
    THEN << last_scanned_block + 1, last_scanned_block >>
    ELSE << last_scanned_block + 1,
            scan_to_block(last_scanned_block + 1, block_batch_size, latest_block) >>

\* the cursor is left where it is
idle_cursor_kept(last_scanned_block, to_block) == last_scanned_block

\* scan_chain: the last_scanned_block committed when the chain has no pending
\* payment
idle_cursor(last_scanned_block, to_block) == to_block

\* the candidates without the PENDING filter
pending_or_detected_payments(c) ==
    {p \in Payments : payments[p].status \in {PENDING, DETECTED} /\ Payment[p].chain = c}

\* scan_chain: the PENDING payments of the chain
pending_payments(c) ==
    {p \in Payments : payments[p].status = PENDING /\ Payment[p].chain = c}

\* scan_chain: the two dictionaries of the scan context, keyed by lowered address
native_payments(s) == {p \in Loaded(s) : Payment[p].token_id = NoToken}
erc20_payments(s) == {p \in Loaded(s) : Payment[p].token_id # NoToken}
lookup(dict, addr) == {p \in dict : Lower(Payment[p].address) = addr}

\* a strict value test
native_value_strict(value, amount) == value > amount

\* _scan_single_block: the value test of a native transfer
native_value_ok(value, amount) == value >= amount

\* the block after the one that was inspected is recorded
mark_detected_next(cur, p, block_number) ==
    [cur EXCEPT ![p].status = DETECTED, ![p].detected_in_block = block_number + 1]

\* _scan_single_block: the assignments of a match
mark_detected(cur, p, block_number) ==
    [cur EXCEPT ![p].status = DETECTED, ![p].detected_in_block = block_number]

\* _scan_single_block: one transaction of the native loop
native_tx(cur, native, tx, block_number) ==
    IF tx.to = NoAddress THEN cur
    ELSE LET hit == lookup(native, Lower(tx.to)) IN
         IF hit = {} THEN cur
         ELSE LET p == CHOOSE q \in hit : TRUE IN
              IF native_value_ok(tx.value, Payment[p].amount)
              THEN mark_detected(cur, p, block_number)
              ELSE cur

RECURSIVE native_loop(_, _, _, _)
native_loop(cur, native, txs, block_number) ==
    IF txs = << >> THEN cur
    ELSE native_loop(native_tx(cur, native, Head(txs), block_number),
                     native, Tail(txs), block_number)

\* _scan_single_block: the address of the indexed recipient topic, its last
\* 20 bytes, lowered
topic_address(topic) == Lower(topic.low20)

\* any contract's Transfer counts
any_contract(log_address, token_address) == TRUE

\* _scan_single_block: the log is emitted by the payment's token contract
token_contract(log_address, token_address) == Lower(log_address) = Lower(token_address)

\* _scan_single_block: one log of the ERC20 loop; error when the payment's token
\* has no contract address (None.lower() raises)
erc20_log(acc, erc20, log, block_number) ==
    IF acc.error \/ Len(log.topics) < 3 THEN acc
    ELSE LET hit == lookup(erc20, topic_address(log.topics[3])) IN
         IF hit = {} THEN acc
         ELSE LET p == CHOOSE q \in hit : TRUE
                  tid == Payment[p].token_id IN
              IF tid \notin Tokens THEN acc
              ELSE IF Token[tid].address = NoAddress THEN [acc EXCEPT !.error = TRUE]
              ELSE IF ~token_contract(log.address, Token[tid].address) THEN acc
              ELSE LET value == IF log.data = Null THEN 0 ELSE log.data IN
                   IF value >= Payment[p].amount
                   THEN [acc EXCEPT !.cur = mark_detected(acc.cur, p, block_number)]
                   ELSE acc

RECURSIVE erc20_loop(_, _, _, _)
erc20_loop(acc, erc20, logs, block_number) ==
    IF logs = << >> THEN acc
    ELSE erc20_loop(erc20_log(acc, erc20, Head(logs), block_number),
                    erc20, Tail(logs), block_number)

\* _scan_single_block: every exception is caught and logged; what the block
\* has assigned before the exception stays assigned.  fetched: get_block, and
\* get_logs if it was called, returned
scan_block_result(s, block_number, block, block_ok, logs_ok) ==
    IF ~block_ok THEN [cur |-> s.cur, error |-> TRUE, fetched |-> FALSE]
    ELSE LET after_native ==
                 native_loop(s.cur, native_payments(s), block.transactions, block_number)
         IN  IF erc20_payments(s) = {}
             THEN [cur |-> after_native, error |-> FALSE, fetched |-> TRUE]
             ELSE IF ~logs_ok THEN [cur |-> after_native, error |-> TRUE, fetched |-> FALSE]
             ELSE erc20_loop([cur |-> after_native, error |-> FALSE, fetched |-> TRUE],
                             erc20_payments(s), block.logs, block_number)

\* scan_chain is called: the SELECT ... FOR UPDATE of the chain's row is issued
scan_chain(w, c) ==
    /\ sess[w].op = "idle"
    /\ sess' = [sess EXCEPT ![w] = [IdleSess EXCEPT !.op = "scan", !.pc = "lock", !.chain = c]]
    /\ UNCHANGED << cursor, lock, payments, blocks, now, batch, range_in, range_out, hooks, webhook, jobs, api, gather >>

\* every row gets the new value
set_every_last_scanned_block(rows, chain, to_block) == [c \in DOMAIN rows |-> to_block]

\* scan_chain: state.last_scanned_block = to_block on the row that was loaded
set_last_scanned_block(rows, chain, to_block) == [rows EXCEPT ![chain] = to_block]

\* scan_chain from the lock to the start of the block tasks: the range, the
\* pending payments, and the three early returns.  Without a chain_states row
\* it logs at debug level and returns.  A failed height query leaves no height
\* (Null).  The return on an empty range leaves the transaction, and with it
\* the row lock, to the caller's session
scan_chain_load(w) ==
    /\ sess[w].op = "scan" /\ sess[w].pc = "lock"
    /\ load_chain_state_ready(sess[w].chain)
    /\ \E rpc_ok \in BOOLEAN, latest_block \in 0..MaxHead :
         LET c == sess[w].chain
             state == IF has_chain_state(c) THEN cursor[c] ELSE Null
             r == calculate_scan_range(state, batch, rpc_ok, latest_block)
             seen == IF rpc_ok THEN latest_block ELSE Null
             payment_list == pending_payments(c)
         IN  IF ~has_chain_state(c)
             THEN /\ sess' = [sess EXCEPT ![w] =
                        [IdleSess EXCEPT !.op = "scan", !.pc = "returned", !.chain = c]]
                  /\ UNCHANGED << cursor, lock, payments >>
             ELSE IF range_is_empty(r[1], r[2])
             THEN /\ lock' = [lock EXCEPT ![c] = w]
                  /\ sess' = [sess EXCEPT ![w] =
                        [IdleSess EXCEPT !.op = "scan", !.pc = "returned", !.chain = c,
                                         !.from_block = r[1], !.to_block = r[2],
                                         !.latest_block = seen]]
                  /\ UNCHANGED << cursor, payments >>
             ELSE IF payment_list = {}
             THEN /\ cursor' = set_last_scanned_block(cursor, c, idle_cursor(cursor[c], r[2]))
                  /\ sess' = [sess EXCEPT ![w] =
                        [IdleSess EXCEPT !.op = "scan", !.pc = "returned", !.chain = c,
                                         !.from_block = r[1], !.to_block = r[2],
                                         !.latest_block = seen]]
                  /\ UNCHANGED << lock, payments >>
             ELSE /\ lock' = [lock EXCEPT ![c] = w]
                  /\ sess' = [sess EXCEPT ![w] =
                        [op |-> "scan", pc |-> "blocks", chain |-> c,
                         from_block |-> r[1], to_block |-> r[2],
                         latest_block |-> seen,
                         todo |-> r[1]..r[2], failed |-> {}, fetched |-> {},
                         orig |-> Snapshot(payment_list),
                         cur |-> Snapshot(payment_list)]]
                  /\ UNCHANGED << cursor, payments >>
    /\ UNCHANGED << blocks, now, batch, range_in, range_out, hooks, webhook, jobs, api, gather >>

\* One task of _scan_blocks_for_payments completes; the tasks of a gather
\* complete in any order
scan_single_block(w, block_number) ==
    /\ sess[w].op = "scan" /\ sess[w].pc = "blocks"
    /\ block_number \in sess[w].todo
    /\ \E block_ok \in BOOLEAN, logs_ok \in BOOLEAN :
         LET r == scan_block_result(sess[w], block_number, blocks[block_number],
                                    block_ok, logs_ok)
         IN  /\ sess' = [sess EXCEPT ![w].cur = r.cur,
                                     ![w].todo = @ \ {block_number},
                                     ![w].failed = IF r.error THEN @ \cup {block_number} ELSE @,
                                     ![w].fetched = IF r.fetched THEN @ \cup {block_number} ELSE @]
             /\ hooks' = hooks \cup
                   dispatch_webhook({p \in Payments : r.cur[p] # sess[w].cur[p]}, DETECTED)
    /\ UNCHANGED << cursor, lock, payments, blocks, now, batch, range_in, range_out, webhook, jobs, api, gather >>

\* scan_chain after the gather: the cursor and the matched payments are committed
scan_chain_commit(w) ==
    /\ sess[w].op = "scan" /\ sess[w].pc = "blocks"
    /\ sess[w].todo = {}
    /\ cursor' = set_last_scanned_block(cursor, sess[w].chain, sess[w].to_block)
    /\ payments' = Flush(sess[w])
    /\ lock' = Release(w)
    /\ sess' = [sess EXCEPT ![w] =
          [IdleSess EXCEPT !.op = "scan", !.pc = "returned", !.chain = sess[w].chain]]
    /\ UNCHANGED << blocks, now, batch, range_in, range_out, hooks, webhook, jobs, api, gather >>

\* The caller of scan_chain leaves its session: what is not committed is
\* rolled back and the row lock is released
session_close(w) ==
    /\ sess[w].op = "scan" /\ sess[w].pc = "returned"
    /\ lock' = Release(w)
    /\ sess' = [sess EXCEPT ![w] = IdleSess]
    /\ UNCHANGED << cursor, payments, blocks, now, batch, range_in, range_out, hooks, webhook, jobs, api, gather >>

\* the count without the detection block itself
confirmation_count_exclusive(latest_block, detected_in_block) ==
    latest_block - detected_in_block

\* confirm_payments: the confirmation count
confirmation_count(latest_block, detected_in_block) ==
    latest_block - detected_in_block + 1

\* confirm_payments: the promotion test
enough_confirmations(confirmations) == confirmations >= confirmations_required

\* confirm_payments: the loop over the DETECTED payments
confirm_one(row, latest_block) ==
    IF row.detected_in_block = Null THEN row
    ELSE IF enough_confirmations(confirmation_count(latest_block, row.detected_in_block))
    THEN [row EXCEPT !.status = CONFIRMED,
                     !.confirmations = confirmation_count(latest_block, row.detected_in_block)]
    ELSE row

detected_payments(c) ==
    {p \in Payments : payments[p].status = DETECTED /\ Payment[p].chain = c}

\* confirm_payments up to its commit
confirm_payments(w, c) ==
    /\ sess[w].op = "idle"
    /\ \E rpc_ok \in BOOLEAN, latest_block \in 0..MaxHead :
         LET ps == detected_payments(c) IN
         IF ~rpc_ok \/ ps = {}
         THEN UNCHANGED << sess, hooks >>
         ELSE /\ sess' = [sess EXCEPT ![w] =
                    [IdleSess EXCEPT !.op = "confirm", !.pc = "commit", !.chain = c,
                                     !.latest_block = latest_block,
                                     !.orig = Snapshot(ps),
                                     !.cur = [p \in Payments |->
                                                IF p \in ps
                                                THEN confirm_one(payments[p], latest_block)
                                                ELSE NotLoaded]]]
              /\ hooks' = hooks \cup
                    dispatch_webhook(
                        {p \in ps : confirm_one(payments[p], latest_block) # payments[p]},
                        CONFIRMED)
    /\ UNCHANGED << cursor, lock, payments, blocks, now, batch, range_in, range_out, webhook, jobs, api, gather >>

\* the select without the test of expires_at
unsettled_payments ==
    {p \in Payments : payments[p].status \in {PENDING, DETECTED}}

\* check_expired_payments: the PENDING or DETECTED payments, of every chain,
\* whose expires_at is not after now
expired_payments ==
    {p \in Payments : /\ payments[p].status \in {PENDING, DETECTED}
                      /\ Payment[p].expires_at <= now}

\* check_expired_payments up to its commit
check_expired_payments(w) ==
    /\ sess[w].op = "idle"
    /\ LET ps == expired_payments IN
       IF ps = {}
       THEN UNCHANGED << sess, hooks >>
       ELSE /\ sess' = [sess EXCEPT ![w] =
                  [IdleSess EXCEPT !.op = "reap", !.pc = "commit",
                                   !.orig = Snapshot(ps),
                                   !.cur = [p \in Payments |->
                                              IF p \in ps
                                              THEN [payments[p] EXCEPT !.status = EXPIRED]
                                              ELSE NotLoaded]]]
            /\ hooks' = hooks \cup dispatch_webhook(ps, EXPIRED)
    /\ UNCHANGED << cursor, lock, payments, blocks, now, batch, range_in, range_out, webhook, jobs, api, gather >>

----------------------------------------------------------------------------
(* SweeperService *)

confirmed_payments(c) ==
    {p \in Payments : payments[p].status = CONFIRMED /\ Payment[p].chain = c}

\* sweep_confirmed_payments: the payments for which the loop body has sent the
\* balance of the deposit address to the admin wallet and seen the transaction
\* included.  The loop body sends no transaction: it logs and assigns "settled"
sweep_transfers(ps) == {}

\* an exception of the loop body leaves the loop and the function: nothing is
\* assigned that a commit would write
sweep_loop_unguarded(ps, raising) ==
    [p \in Payments |->
        IF p \in ps
        THEN IF raising = {} THEN [payments[p] EXCEPT !.status = SETTLED] ELSE payments[p]
        ELSE NotLoaded]

\* sweep_confirmed_payments: the loop over the confirmed payments.  The body of
\* a payment in `raising` raises before its assignment; the exception is caught
\* and logged inside the loop
sweep_loop(ps, raising) ==
    [p \in Payments |->
        IF p \in ps
        THEN IF p \in raising THEN payments[p] ELSE [payments[p] EXCEPT !.status = SETTLED]
        ELSE NotLoaded]

\* sweep_confirmed_payments up to its commit
sweep_confirmed_payments(w, c) ==
    /\ sess[w].op = "idle"
    /\ LET ps == confirmed_payments(c) IN
       IF ps = {}
       THEN UNCHANGED sess
       ELSE \E raising \in SUBSET ps :
               sess' = [sess EXCEPT ![w] =
                  [IdleSess EXCEPT !.op = "sweep", !.pc = "commit", !.chain = c,
                                   !.failed = raising,
                                   !.orig = Snapshot(ps),
                                   !.cur = sweep_loop(ps, raising)]]
    /\ UNCHANGED << cursor, lock, payments, blocks, now, batch, range_in, range_out, hooks, webhook, jobs, api, gather >>

\* The session.commit() that ends confirm_payments, check_expired_payments and
\* sweep_confirmed_payments
session_commit(w) ==
    /\ sess[w].op \in {"confirm", "reap", "sweep"} /\ sess[w].pc = "commit"
    /\ payments' = Flush(sess[w])
    /\ sess' = [sess EXCEPT ![w] = IdleSess]
    /\ UNCHANGED << cursor, lock, blocks, now, batch, range_in, range_out, hooks, webhook, jobs, api, gather >>

----------------------------------------------------------------------------
(* The workers *)

\* A job that exceeds its time limit is terminated: its transaction is rolled
\* back and its locks are released
job_timeout(w) ==
    /\ sess[w].op # "idle"
    /\ lock' = Release(w)
    /\ sess' = [sess EXCEPT ![w] = IdleSess]
    /\ UNCHANGED << cursor, payments, blocks, now, batch, range_in, range_out, hooks, webhook, jobs, api, gather >>

\* Time passes
Tick ==
    /\ now < MaxTime
    /\ now' = now + 1
    /\ UNCHANGED << cursor, lock, payments, blocks, batch, sess, range_in, range_out, hooks, webhook, jobs, api, gather >>

Init ==
    /\ cursor = [c \in Chains |-> 0]
    /\ lock = [c \in Chains |-> NoWorker]
    /\ payments = [p \in Payments |-> NewRow]
    /\ blocks \in [Blocks -> BlockChoices]
    /\ now = 0
    /\ batch \in 1..MaxBatch
    /\ sess = [w \in Workers |-> IdleSess]
    /\ range_in = [last_scanned_block |-> 0, latest_block |-> 0, block_batch_size |-> 1]
    /\ range_out = [by |-> "none", from_block |-> 0, to_block |-> 0]
    /\ hooks = {}
    /\ webhook = NoWebhook
    /\ jobs = NoJobs
    /\ api = NoApi
    /\ gather = NoGather

Next ==
    \/ \E w \in Workers, c \in Chains : scan_chain(w, c)
    \/ \E w \in Workers : scan_chain_load(w)
    \/ \E w \in Workers, b \in Blocks : scan_single_block(w, b)
    \/ \E w \in Workers : scan_chain_commit(w)
    \/ \E w \in Workers : session_close(w)
    \/ \E w \in Workers, c \in Chains : confirm_payments(w, c)
    \/ \E w \in Workers : check_expired_payments(w)
    \/ \E w \in Workers, c \in Chains : sweep_confirmed_payments(w, c)
    \/ \E w \in Workers : session_commit(w)
    \/ \E w \in Workers : job_timeout(w)
    \/ Tick

Spec == Init /\ [][Next]_vars


----------------------------------------------------------------------------
(* The listener worker (app/workers/listener.py): its own scan and         *)
(* confirmation cycles, on the chain "anvil" alone.  Its UPDATE statements *)
(* run inside the cycle's transaction and become visible at its commit;    *)
(* they are kept as the session's pending values.                          *)

CONFIRMATIONS_REQUIRED == 1
BLOCK_BATCH_SIZE == 20

\* _scan_blocks: the range
listener_scan_range(last_scanned_block, latest_block) ==
    << last_scanned_block + 1,
       Min(last_scanned_block + 1 + BLOCK_BATCH_SIZE, latest_block) >>

\* _scan_blocks: every pending payment, of any chain and any asset
listener_pending_payments == {p \in Payments : payments[p].status = PENDING}

\* _scan_blocks: one transaction; the warning of an underpayment formats
\* payment.amount_wei, an attribute Payment does not have, and raises
listener_tx(acc, payment_map, tx) ==
    IF acc.error \/ tx.to = NoAddress THEN acc
    ELSE LET hit == lookup(payment_map, Lower(tx.to)) IN
         IF hit = {} THEN acc
         ELSE LET p == CHOOSE q \in hit : TRUE IN
              IF tx.value < Payment[p].amount
              THEN [acc EXCEPT !.error = TRUE]
              ELSE [acc EXCEPT !.cur[p].status = DETECTED]

RECURSIVE listener_tx_loop(_, _, _)
listener_tx_loop(acc, payment_map, txs) ==
    IF txs = << >> THEN acc
    ELSE listener_tx_loop(listener_tx(acc, payment_map, Head(txs)), payment_map, Tail(txs))

\* _scan_blocks is called: the SELECT ... FOR UPDATE of the "anvil" row is issued
listener_scan_blocks(w) ==
    /\ sess[w].op = "idle"
    /\ sess' = [sess EXCEPT ![w] = [IdleSess EXCEPT !.op = "lscan", !.pc = "lock",
                                                    !.chain = "anvil"]]
    /\ UNCHANGED << cursor, lock, payments, blocks, now, batch, range_in, range_out, hooks, webhook, jobs, api, gather >>

\* _scan_blocks from the lock to the block loop; a failed height query raises
listener_scan_load(w) ==
    /\ sess[w].op = "lscan" /\ sess[w].pc = "lock"
    /\ load_chain_state_ready("anvil")
    /\ \E rpc_ok \in BOOLEAN, latest_block \in 0..MaxHead :
         LET r == listener_scan_range(cursor["anvil"], latest_block)
             payment_list == listener_pending_payments
         IN  IF ~rpc_ok \/ r[1] > r[2]
             THEN /\ sess' = [sess EXCEPT ![w] = IdleSess]
                  /\ UNCHANGED lock
             ELSE /\ lock' = [lock EXCEPT !["anvil"] = w]
                  /\ sess' = [sess EXCEPT ![w] =
                        [op |-> "lscan", pc |-> "blocks", chain |-> "anvil",
                         from_block |-> r[1], to_block |-> r[2],
                         latest_block |-> latest_block,
                         todo |-> r[1]..r[2], failed |-> {}, fetched |-> {},
                         orig |-> Snapshot(payment_list),
                         cur |-> Snapshot(payment_list)]]
    /\ UNCHANGED << cursor, payments, blocks, now, batch, range_in, range_out, hooks, webhook, jobs, api, gather >>

\* _scan_blocks: the next block of the loop; any exception leaves the cycle,
\* the session is closed without a commit
listener_scan_block(w) ==
    /\ sess[w].op = "lscan" /\ sess[w].pc = "blocks"
    /\ sess[w].todo # {}
    /\ \E block_ok \in BOOLEAN :
         LET block_number == CHOOSE b \in sess[w].todo : \A o \in sess[w].todo : b <= o
             r == listener_tx_loop([cur |-> sess[w].cur, error |-> FALSE],
                                   Loaded(sess[w]), blocks[block_number].transactions)
         IN  IF ~block_ok \/ r.error
             THEN /\ lock' = Release(w)
                  /\ sess' = [sess EXCEPT ![w] = IdleSess]
             ELSE /\ sess' = [sess EXCEPT ![w].cur = r.cur,
                                          ![w].todo = @ \ {block_number}]
                  /\ UNCHANGED lock
    /\ UNCHANGED << cursor, payments, blocks, now, batch, range_in, range_out, hooks, webhook, jobs, api, gather >>

\* _scan_blocks: the cursor and the status updates are committed
listener_scan_commit(w) ==
    /\ sess[w].op = "lscan" /\ sess[w].pc = "blocks"
    /\ sess[w].todo = {}
    /\ cursor' = [cursor EXCEPT !["anvil"] = sess[w].to_block]
    /\ payments' = Flush(sess[w])
    /\ lock' = Release(w)
    /\ sess' = [sess EXCEPT ![w] = IdleSess]
    /\ UNCHANGED << blocks, now, batch, range_in, range_out, hooks, webhook, jobs, api, gather >>

\* _confirm_payments: every detected payment, of any chain
listener_detected_payments == {p \in Payments : payments[p].status = DETECTED}

\* _confirm_payments: the loop body
listener_confirm_one(row, latest_block) ==
    IF latest_block - row.detected_in_block + 1 >= CONFIRMATIONS_REQUIRED
    THEN [row EXCEPT !.status = CONFIRMED,
                     !.confirmations = latest_block - row.detected_in_block + 1]
    ELSE row

\* _confirm_payments up to its commit; a failed height query raises, and so does
\* the subtraction for a payment whose detected_in_block is NULL; it commits
\* only if it confirmed a payment
listener_confirm_payments(w) ==
    /\ sess[w].op = "idle"
    /\ \E rpc_ok \in BOOLEAN, latest_block \in 0..MaxHead :
         LET ps == listener_detected_payments
             new == [p \in Payments |->
                        IF p \in ps /\ payments[p].detected_in_block # Null
                        THEN listener_confirm_one(payments[p], latest_block)
                        ELSE NotLoaded]
         IN  IF \/ ~rpc_ok
                \/ \E p \in ps : payments[p].detected_in_block = Null
                \/ \A p \in ps : new[p].status # CONFIRMED
             THEN UNCHANGED sess
             ELSE sess' = [sess EXCEPT ![w] =
                     [IdleSess EXCEPT !.op = "lconfirm", !.pc = "commit",
                                      !.latest_block = latest_block,
                                      !.orig = Snapshot(ps), !.cur = new]]
    /\ UNCHANGED << cursor, lock, payments, blocks, now, batch, range_in, range_out, hooks, webhook, jobs, api, gather >>

\* _confirm_payments: session.commit()
listener_confirm_commit(w) ==
    /\ sess[w].op = "lconfirm" /\ sess[w].pc = "commit"
    /\ payments' = Flush(sess[w])
    /\ sess' = [sess EXCEPT ![w] = IdleSess]
    /\ UNCHANGED << cursor, lock, blocks, now, batch, range_in, range_out, hooks, webhook, jobs, api, gather >>

NextAll ==
    \/ \E w \in Workers, c \in Chains : scan_chain(w, c)
    \/ \E w \in Workers : scan_chain_load(w)
    \/ \E w \in Workers, b \in Blocks : scan_single_block(w, b)
    \/ \E w \in Workers : scan_chain_commit(w)
    \/ \E w \in Workers : session_close(w)
    \/ \E w \in Workers, c \in Chains : confirm_payments(w, c)
    \/ \E w \in Workers : check_expired_payments(w)
    \/ \E w \in Workers, c \in Chains : sweep_confirmed_payments(w, c)
    \/ \E w \in Workers : session_commit(w)
    \/ \E w \in Workers : job_timeout(w)
    \/ Tick
    \/ \E w \in Workers : listener_scan_blocks(w)
    \/ \E w \in Workers : listener_scan_load(w)
    \/ \E w \in Workers : listener_scan_block(w)
    \/ \E w \in Workers : listener_scan_commit(w)
    \/ \E w \in Workers : listener_confirm_payments(w)
    \/ \E w \in Workers : listener_confirm_commit(w)

\* ScannerService cycles and listener cycles on one database
SpecAll == Init /\ [][NextAll]_vars

----------------------------------------------------------------------------
(* The scan-range computation on its own: the inputs are drawn at Init,    *)
(* one action per implementation applies it                                *)

NoRange == [by |-> "none", from_block |-> 0, to_block |-> 0]

InitRange ==
    /\ cursor = [c \in Chains |-> 0]
    /\ lock = [c \in Chains |-> NoWorker]
    /\ payments = [p \in Payments |-> NewRow]
    /\ blocks = [b \in Blocks |-> EmptyBlock]
    /\ now = 0
    /\ batch = 1
    /\ sess = [w \in Workers |-> IdleSess]
    /\ range_in \in [last_scanned_block : 0..MaxRangeCursor,
                     latest_block : 0..MaxRangeHead,
                     block_batch_size : 1..MaxRangeBatch]
    /\ range_out = NoRange
    /\ hooks = {}
    /\ webhook = NoWebhook
    /\ jobs = NoJobs
    /\ api = NoApi
    /\ gather = NoGather

range_scanner ==
    /\ range_out = NoRange
    /\ LET r == calculate_scan_range(range_in.last_scanned_block,
                                     range_in.block_batch_size, TRUE,
                                     range_in.latest_block)
       IN  range_out' = [by |-> "scanner", from_block |-> r[1], to_block |-> r[2]]
    /\ UNCHANGED << cursor, lock, payments, blocks, now, batch, sess, range_in, hooks, webhook, jobs, api, gather >>

range_listener ==
    /\ range_out = NoRange
    /\ range_in.block_batch_size = BLOCK_BATCH_SIZE
    /\ LET r == listener_scan_range(range_in.last_scanned_block, range_in.latest_block)
       IN  range_out' = [by |-> "listener", from_block |-> r[1], to_block |-> r[2]]
    /\ UNCHANGED << cursor, lock, payments, blocks, now, batch, sess, range_in, hooks, webhook, jobs, api, gather >>

NextRange == range_scanner \/ range_listener

SpecRange == InitRange /\ [][NextRange]_vars

----------------------------------------------------------------------------
(* The webhook dispatcher on its own: WebhookService.send_webhook as an      *)
(* operator, one action per caller, and the retry cron job.  The payload,   *)
(* the secret and what the POST meets are drawn at each call                *)

\* secret=None
NoSecret == "<None>"
WebhookSecrets == {NoSecret, "", "k1", "k2"}

\* a value json.dumps has no encoding for
NotJson == "<object>"
\* payloads of _dispatch_webhook (every value a str) and of send_custom_webhook
EventPayloads ==
    {[payment_id |-> "p1", status |-> DETECTED], [payment_id |-> "p2", status |-> EXPIRED]}
CustomPayloads == EventPayloads \cup {[payment_id |-> "p1", status |-> NotJson]}

\* what client.post meets: a response with a status code, or an httpx error
Response(status_code) == [kind |-> "response", status_code |-> status_code]
PostOutcomes ==
    {Response(200), Response(204), Response(302), Response(404), Response(500),
     Response(503), [kind |-> "timeout", status_code |-> 0],
     [kind |-> "connect_error", status_code |-> 0]}

\* json.dumps(payload), for a payload it can encode
json_serializable(payload) == payload.status # NotJson
json_dumps(payload) ==
    "{payment_id: " \o payload.payment_id \o ", status: " \o payload.status \o "}"

\* str.encode(): the UTF-8 bytes of a string
encode(str) == "bytes(" \o str \o ")"

\* hmac.new(key, msg, hashlib.sha256).hexdigest()
hmac_sha256_hexdigest(key, msg) == "hmac-sha256(" \o key \o ", " \o msg \o ")"

\* `if secret:`: neither None nor the empty string
secret_given(secret) == secret # NoSecret /\ secret # ""

\* the signature is computed over another serialization of the payload
signed_sorted_data(data) == encode("sorted " \o data)

\* send_webhook: the bytes the signature is computed over
signed_data(data) == encode(data)

\* success below 400, as raise_for_status once was
is_not_error(status_code) == status_code < 400

\* Response.raise_for_status: returns for a 2xx status code, raises otherwise
is_success(status_code) == status_code >= 200 /\ status_code <= 299

\* WebhookService.send_webhook: the request it posts, if any, and what it returns
send_webhook(payload, secret, outcome) ==
    IF ~json_serializable(payload)
    THEN [posted |-> FALSE, content |-> "", headers |-> {}, result |-> FALSE]
    ELSE LET data == json_dumps(payload) IN
         [posted |-> TRUE,
          content |-> encode(data),
          headers |-> {<< "Content-Type", "application/json" >>} \cup
                      (IF secret_given(secret)
                       THEN {<< "X-Webhook-Signature",
                                hmac_sha256_hexdigest(encode(secret), signed_data(data)) >>}
                       ELSE {}),
          result |-> outcome.kind = "response" /\ is_success(outcome.status_code)]

\* the record of a call of send_webhook
WebhookCall(pc, payload, secret, outcome) ==
    LET r == send_webhook(payload, secret, outcome) IN
    [pc |-> pc, secret |-> secret, payload |-> payload, outcome |-> outcome,
     posted |-> r.posted, content |-> r.content, headers |-> r.headers,
     result |-> r.result, raised |-> FALSE,
     attempts |-> 1, retry_cycles |-> 0]

\* ScannerService._dispatch_webhook for a payment event: the payload is built
\* from str values, send_webhook is awaited and what it returns is dropped
scanner_dispatch_webhook ==
    /\ webhook.pc = "idle"
    /\ \E payload \in EventPayloads, secret \in WebhookSecrets, outcome \in PostOutcomes :
          webhook' = WebhookCall("dispatched", payload, secret, outcome)
    /\ UNCHANGED << cursor, lock, payments, blocks, now, batch, sess, range_in, range_out,
                    hooks, jobs, api, gather >>

\* send_custom_webhook: send_webhook on any payload, its result returned
send_custom_webhook ==
    /\ webhook.pc = "idle"
    /\ \E payload \in CustomPayloads, secret \in WebhookSecrets, outcome \in PostOutcomes :
          webhook' = WebhookCall("custom", payload, secret, outcome)
    /\ UNCHANGED << cursor, lock, payments, blocks, now, batch, sess, range_in, range_out,
                    hooks, jobs, api, gather >>

\* send_webhook_notification: a payment that is not found returns False; for a
\* payment that is found, payment.webhook_url is read, which Payment does not
\* have: the AttributeError is logged and raised again, nothing is posted
send_webhook_notification ==
    /\ webhook.pc = "idle"
    /\ \E found \in BOOLEAN :
          webhook' = [NoWebhook EXCEPT !.pc = "notified", !.raised = found]
    /\ UNCHANGED << cursor, lock, payments, blocks, now, batch, sess, range_in, range_out,
                    hooks, jobs, api, gather >>

\* retry_failed_webhooks, the cron job: it logs and returns; no delivery is
\* stored anywhere and none is sent again
retry_failed_webhooks ==
    /\ webhook.pc # "idle"
    /\ webhook.retry_cycles < MaxRetryCycles
    /\ webhook' = [webhook EXCEPT !.retry_cycles = @ + 1]
    /\ UNCHANGED << cursor, lock, payments, blocks, now, batch, sess, range_in, range_out,
                    hooks, jobs, api, gather >>

InitWebhook ==
    /\ cursor = [c \in Chains |-> 0]
    /\ lock = [c \in Chains |-> NoWorker]
    /\ payments = [p \in Payments |-> NewRow]
    /\ blocks = [b \in Blocks |-> EmptyBlock]
    /\ now = 0
    /\ batch = 1
    /\ sess = [w \in Workers |-> IdleSess]
    /\ range_in = [last_scanned_block |-> 0, latest_block |-> 0, block_batch_size |-> 1]
    /\ range_out = NoRange
    /\ hooks = {}
    /\ webhook = NoWebhook
    /\ jobs = NoJobs
    /\ api = NoApi
    /\ gather = NoGather

NextWebhook ==
    \/ scanner_dispatch_webhook
    \/ send_custom_webhook
    \/ send_webhook_notification
    \/ retry_failed_webhooks

SpecWebhook == InitWebhook /\ [][NextWebhook]_vars

----------------------------------------------------------------------------
(* The scheduled jobs on their own: which chains a run of sweep_funds and a *)
(* run of listen_for_payments work; whether a chain's cycle raises is drawn *)
(* at each cycle                                                            *)

\* the chain names of settings.chains (chains.yaml), in order
ChainConfigs ==
    { << >>, << "anvil" >>, << "anvil", "sepolia" >>, << "sepolia", "anvil" >> }

\* get_enabled_chains: the configured names, ["anvil"] when none is configured
get_enabled_chains(chains) == IF chains = << >> THEN << "anvil" >> ELSE chains

\* the chains a job is to work
EnabledChains ==
    {get_enabled_chains(jobs.chains)[i] : i \in 1..Len(get_enabled_chains(jobs.chains))}

\* the scheduler fires sweep_funds: one session, the enabled chains in order
sweep_funds ==
    /\ jobs.sweep.pc # "running"
    /\ jobs.fired < MaxFired
    /\ jobs' = [jobs EXCEPT !.fired = @ + 1,
                            !.sweep = [pc |-> "running",
                                       todo |-> get_enabled_chains(jobs.chains),
                                       ran |-> {}, raised |-> {}]]
    /\ UNCHANGED << cursor, lock, payments, blocks, now, batch, sess, range_in, range_out,
                    hooks, webhook, api, gather >>

\* sweep_funds: sweep_confirmed_payments of the next chain of the loop.  An
\* exception it raises (its select or its commit failing) leaves the loop: it
\* is logged and raised again, and the job ends
sweep_funds_chain ==
    /\ jobs.sweep.pc = "running"
    /\ \E ok \in BOOLEAN :
          LET chain_name == Head(jobs.sweep.todo) IN
          jobs' = IF ok
                  THEN [jobs EXCEPT !.sweep.ran = @ \cup {chain_name},
                                    !.sweep.todo = Tail(@),
                                    !.sweep.pc = IF Tail(jobs.sweep.todo) = << >>
                                                 THEN "done" ELSE "running"]
                  ELSE [jobs EXCEPT !.sweep.raised = {chain_name},
                                    !.sweep.pc = "raised"]
    /\ UNCHANGED << cursor, lock, payments, blocks, now, batch, sess, range_in, range_out,
                    hooks, webhook, api, gather >>

\* the scheduler fires listen_for_payments
listen_for_payments ==
    /\ jobs.listen.pc \in {"idle", "done"}
    /\ jobs.fired < MaxFired
    /\ jobs' = [jobs EXCEPT !.fired = @ + 1,
                            !.listen = [pc |-> "scan", scanned |-> {}, confirmed |-> {},
                                        raised |-> {}]]
    /\ UNCHANGED << cursor, lock, payments, blocks, now, batch, sess, range_in, range_out,
                    hooks, webhook, api, gather >>

\* listen_for_payments: _scan_blocks, which works the chain "anvil"; an
\* exception is logged and the run ends, the next run is scheduled
listen_scan_blocks ==
    /\ jobs.listen.pc = "scan"
    /\ \E ok \in BOOLEAN :
          jobs' = IF ok
                  THEN [jobs EXCEPT !.listen.scanned = {"anvil"}, !.listen.pc = "confirm"]
                  ELSE [jobs EXCEPT !.listen.raised = {"anvil"}, !.listen.pc = "done"]
    /\ UNCHANGED << cursor, lock, payments, blocks, now, batch, sess, range_in, range_out,
                    hooks, webhook, api, gather >>

\* listen_for_payments: _confirm_payments, which works the chain "anvil"
listen_confirm_payments ==
    /\ jobs.listen.pc = "confirm"
    /\ \E ok \in BOOLEAN :
          jobs' = IF ok
                  THEN [jobs EXCEPT !.listen.confirmed = {"anvil"}, !.listen.pc = "done"]
                  ELSE [jobs EXCEPT !.listen.raised = {"anvil"}, !.listen.pc = "done"]
    /\ UNCHANGED << cursor, lock, payments, blocks, now, batch, sess, range_in, range_out,
                    hooks, webhook, api, gather >>

InitJobs ==
    /\ cursor = [c \in Chains |-> 0]
    /\ lock = [c \in Chains |-> NoWorker]
    /\ payments = [p \in Payments |-> NewRow]
    /\ blocks = [b \in Blocks |-> EmptyBlock]
    /\ now = 0
    /\ batch = 1
    /\ sess = [w \in Workers |-> IdleSess]
    /\ range_in = [last_scanned_block |-> 0, latest_block |-> 0, block_batch_size |-> 1]
    /\ range_out = NoRange
    /\ hooks = {}
    /\ webhook = NoWebhook
    /\ \E chains \in ChainConfigs : jobs = [NoJobs EXCEPT !.chains = chains]
    /\ api = NoApi
    /\ gather = NoGather

NextJobs ==
    \/ sweep_funds
    \/ sweep_funds_chain
    \/ listen_for_payments
    \/ listen_scan_blocks
    \/ listen_confirm_payments

SpecJobs == InitJobs /\ [][NextJobs]_vars

----------------------------------------------------------------------------
(* The scheduler (WorkerSettings.cron_jobs): the cycles its jobs run on the  *)
(* database.  listen_for_payments runs the listener's scan and confirmation  *)
(* cycles, sweep_funds runs sweep_confirmed_payments; retry_failed_webhooks  *)
(* touches no payment.  No job calls check_expired_payments.  The listener's *)
(* scan stores no detection block, so its confirmation cycle raises on every *)
(* payment the scan detected and commits no promotion, and the sweep cycle   *)
(* finds no CONFIRMED payment and commits nothing: neither commit is a step  *)
(* of the scheduler's runs                                                   *)

\* the blocks as the scheduled jobs read them: get_block alone, no get_logs
InitCron ==
    /\ Init
    /\ \A b \in Blocks : blocks[b].logs = << >>

NextCron ==
    \/ \E w \in Workers : listener_scan_blocks(w)
    \/ \E w \in Workers : listener_scan_load(w)
    \/ \E w \in Workers : listener_scan_block(w)
    \/ \E w \in Workers : listener_scan_commit(w)
    \/ \E w \in Workers : listener_confirm_payments(w)
    \/ \E w \in Workers, c \in Chains : sweep_confirmed_payments(w, c)
    \/ \E w \in Workers : job_timeout(w)
    \/ Tick

\* the clock runs, every cron job fires again and again, and a cycle that can
\* take its next step takes it
FairCron ==
    /\ WF_vars(Tick)
    /\ \A w \in Workers :
          /\ WF_vars(listener_scan_blocks(w))
          /\ WF_vars(listener_scan_load(w))
          /\ WF_vars(listener_scan_block(w))
          /\ WF_vars(listener_scan_commit(w))
          /\ WF_vars(listener_confirm_payments(w))
          /\ WF_vars(\E c \in Chains : sweep_confirmed_payments(w, c))

SpecCron == InitCron /\ [][NextCron]_vars /\ FairCron

----------------------------------------------------------------------------
(* The chain_states table over the configured chains: the API server seeds  *)
(* it at startup, the workers run their cycles on every enabled chain,      *)
(* whether or not the server has started.  jobs.chains is chains.yaml       *)

\* get_blockchains: the configured chains, "anvil" when none is configured
get_blockchains == EnabledChains

\* the insert without the test for an existing row
add_every_chain_state(chains) == [c \in chains |-> 0]

\* add_chain_states: a row with last_scanned_block 0 for every chain that has none
add_missing_chain_states(chains) ==
    [c \in chains \ DOMAIN cursor |-> 0]

\* lifespan: add_chain_states on the configured chains.  chain is the unique
\* key of chain_states, so the table is a function of the chain.  The rows are
\* committed together with the tokens; when a statement fails nothing is
\* committed and the startup fails.  startup counts the runs that committed and
\* notes whether the last one found a row a scan had advanced
add_chain_states ==
    /\ jobs.startup.runs < MaxStartups
    /\ \E db_ok \in BOOLEAN :
          LET added == add_missing_chain_states(get_blockchains) IN
          IF db_ok
          THEN /\ cursor' = [c \in DOMAIN cursor \cup DOMAIN added |->
                                IF c \in DOMAIN added THEN added[c] ELSE cursor[c]]
               /\ lock' = [c \in DOMAIN cursor \cup DOMAIN added |->
                                IF c \in DOMAIN lock THEN lock[c] ELSE NoWorker]
               /\ jobs' = [jobs EXCEPT !.startup =
                              [runs |-> @.runs + 1,
                               found_scanned |-> \E c \in get_blockchains \cap DOMAIN cursor :
                                                    cursor[c] > 0]]
          ELSE UNCHANGED << cursor, lock, jobs >>
    /\ UNCHANGED << payments, blocks, now, batch, sess, range_in, range_out, hooks, webhook, api, gather >>

\* a fresh database: no chain_states row; one block content for the chain; the
\* order of the chains in chains.yaml plays no part here
InitChains ==
    /\ cursor = << >>
    /\ lock = << >>
    /\ payments = [p \in Payments |-> NewRow]
    /\ blocks = [b \in Blocks |-> [transactions |-> << Tx("0xAA", 2) >>, logs |-> << >>]]
    /\ now = 0
    /\ batch = 1
    /\ sess = [w \in Workers |-> IdleSess]
    /\ range_in = [last_scanned_block |-> 0, latest_block |-> 0, block_batch_size |-> 1]
    /\ range_out = NoRange
    /\ hooks = {}
    /\ webhook = NoWebhook
    /\ \E chains \in ChainConfigs :
          /\ IF chains = << >> THEN TRUE ELSE Head(chains) = "anvil"
          /\ jobs = [NoJobs EXCEPT !.chains = chains]
    /\ api = NoApi
    /\ gather = NoGather

NextChains ==
    \/ add_chain_states
    \/ \E w \in Workers, c \in EnabledChains : scan_chain(w, c)
    \/ \E w \in Workers : scan_chain_load(w)
    \/ \E w \in Workers, b \in Blocks : scan_single_block(w, b)
    \/ \E w \in Workers : scan_chain_commit(w)
    \/ \E w \in Workers : session_close(w)
    \/ \E w \in Workers, c \in EnabledChains : confirm_payments(w, c)
    \/ \E w \in Workers : check_expired_payments(w)
    \/ \E w \in Workers, c \in EnabledChains : sweep_confirmed_payments(w, c)
    \/ \E w \in Workers : session_commit(w)
    \/ Tick

SpecChains == InitChains /\ [][NextChains]_vars

----------------------------------------------------------------------------
(* Payment creation (POST /api/v1/payments) on its own: the requests are    *)
(* served concurrently, each in its own session; a SELECT sees the rows     *)
(* that are committed when it runs                                          *)

\* the chains a request names: a configured one and one that is not
RequestChains == {"anvil", "unknown"}

\* HDWalletManager.get_address: the account of the BIP-44 path of the index
get_address(index) == [address |-> << "m/44'/60'/0'/0", index >>, index |-> index]

\* create_payment: the index after the highest one of hdwallet_addresses, 0 for
\* an empty table
last_index(hd) == CHOOSE i \in {hd[k].index : k \in DOMAIN hd} :
                      \A k \in DOMAIN hd : hd[k].index <= i
next_index(hd) == IF hd = << >> THEN 0 ELSE last_index(hd) + 1

\* create_payment up to the computation of next_index; a chain that is not
\* configured is answered with 400 and nothing is added
create_payment(r) ==
    /\ api.req[r].pc = "idle"
    /\ Len(api.hd) < MaxCreated
    /\ \E chain \in RequestChains :
          api' = IF chain \notin get_blockchains
                 THEN [api EXCEPT !.req[r] = [pc |-> "idle", next_index |-> 0]]
                 ELSE [api EXCEPT !.req[r] = [pc |-> "add", next_index |-> next_index(api.hd)]]
    /\ UNCHANGED << cursor, lock, payments, blocks, now, batch, sess, range_in, range_out,
                    hooks, webhook, jobs, gather >>

\* create_payment from get_address to the commit: the HDWalletAddress row and
\* the Payment row are inserted together; a commit that fails is rolled back
\* and answered with 400
create_payment_commit(r) ==
    /\ api.req[r].pc = "add"
    /\ \E db_ok \in BOOLEAN :
          LET wallet_info == get_address(api.req[r].next_index) IN
          api' = IF db_ok
                 THEN [api EXCEPT !.hd = Append(@, [address |-> wallet_info.address,
                                                    index |-> api.req[r].next_index]),
                                  !.created = Append(@, [address |-> wallet_info.address,
                                                         status |-> PENDING]),
                                  !.req[r] = [pc |-> "idle", next_index |-> 0]]
                 ELSE [api EXCEPT !.req[r] = [pc |-> "idle", next_index |-> 0]]
    /\ UNCHANGED << cursor, lock, payments, blocks, now, batch, sess, range_in, range_out,
                    hooks, webhook, jobs, gather >>

InitCreate == InitWebhook

NextCreate ==
    \/ \E r \in Requests : create_payment(r)
    \/ \E r \in Requests : create_payment_commit(r)

SpecCreate == InitCreate /\ [][NextCreate]_vars

----------------------------------------------------------------------------
(* The scan cycles of the chain "bsc" on their own: its two token payments,  *)
(* and blocks whose logs hold an item the inspection cannot use next to a    *)
(* Transfer that pays p4                                                     *)

\* a Transfer of p4's amount to p4's address by p4's token contract
PaysP4 == TransferLog("0xc3", << Topic("sig"), Topic("0xee"), Topic("0xe4") >>, 2)

ItemBlockChoices ==
    { EmptyBlock,
      [transactions |-> << >>, logs |-> << PaysP4 >>],
      \* a log without a recipient topic, then the Transfer to p4
      [transactions |-> << >>,
       logs |-> << TransferLog("0xc3", << Topic("sig"), Topic("0xe4") >>, 2), PaysP4 >>],
      \* a Transfer to p3, whose token has no contract address, then the Transfer to p4
      [transactions |-> << >>,
       logs |-> << TransferLog("0xc3", << Topic("sig"), Topic("0xee"), Topic("0xe3") >>, 2),
                   PaysP4 >>],
      \* the Transfer to p4, then a Transfer to p3
      [transactions |-> << >>,
       logs |-> << PaysP4,
                   TransferLog("0xc3", << Topic("sig"), Topic("0xee"), Topic("0xe3") >>, 2) >>] }

InitBlock ==
    /\ cursor = [c \in {"bsc"} |-> 0]
    /\ lock = [c \in {"bsc"} |-> NoWorker]
    /\ payments = [p \in Payments |-> NewRow]
    /\ blocks \in [Blocks -> ItemBlockChoices]
    /\ now = 0
    /\ batch = 1
    /\ sess = [w \in Workers |-> IdleSess]
    /\ range_in = [last_scanned_block |-> 0, latest_block |-> 0, block_batch_size |-> 1]
    /\ range_out = NoRange
    /\ hooks = {}
    /\ webhook = NoWebhook
    /\ jobs = NoJobs
    /\ api = NoApi
    /\ gather = NoGather

NextBlock ==
    \/ \E w \in Workers : scan_chain(w, "bsc")
    \/ \E w \in Workers : scan_chain_load(w)
    \/ \E w \in Workers, b \in Blocks : scan_single_block(w, b)
    \/ \E w \in Workers : scan_chain_commit(w)
    \/ \E w \in Workers : session_close(w)

SpecBlock == InitBlock /\ [][NextBlock]_vars

----------------------------------------------------------------------------
(* The block tasks of one scan cycle: _scan_blocks_for_payments creates one  *)
(* task per block of the range and awaits them all; each task does its       *)
(* fetching and inspecting inside "async with self._semaphore".  What a task *)
(* assigns to the payments is scan_single_block above; here only the         *)
(* position of each task is kept, in gather                                  *)

\* ScannerService.__init__: the permits of the semaphore
semaphore_value == 5

\* a semaphore that never blocks
semaphore_unbounded(running) == TRUE

\* asyncio.Semaphore.acquire returns at once while a permit is left
semaphore_free(running) == Cardinality(running) < semaphore_value

\* scan_chain up to the gather: the range is computed from the row and the
\* reported height; the empty range returns
gather_start ==
    /\ gather.pc = "idle"
    /\ cursor["anvil"] < MaxGatherHead
    /\ \E rpc_ok \in BOOLEAN, latest_block \in 0..MaxGatherHead :
          LET r == calculate_scan_range(cursor["anvil"], batch, rpc_ok, latest_block) IN
          /\ gather' = IF r[1] > r[2] THEN NoGather
                       ELSE [pc |-> "gather", from_block |-> r[1], to_block |-> r[2],
                             waiting |-> r[1]..r[2], running |-> {}, done |-> {}]
    /\ UNCHANGED << cursor, lock, payments, blocks, now, batch, sess, range_in, range_out,
                    hooks, webhook, jobs, api >>

\* _scan_single_block: the task of block_number enters the semaphore
task_acquire(block_number) ==
    /\ gather.pc = "gather"
    /\ block_number \in gather.waiting
    /\ semaphore_free(gather.running)
    /\ gather' = [gather EXCEPT !.waiting = @ \ {block_number},
                                !.running = @ \cup {block_number}]
    /\ UNCHANGED << cursor, lock, payments, blocks, now, batch, sess, range_in, range_out,
                    hooks, webhook, jobs, api >>

\* _scan_single_block: the block is fetched and inspected, or an exception is
\* caught and logged; either way the task leaves the semaphore and returns
task_release(block_number) ==
    /\ gather.pc = "gather"
    /\ block_number \in gather.running
    /\ gather' = [gather EXCEPT !.running = @ \ {block_number},
                                !.done = @ \cup {block_number}]
    /\ UNCHANGED << cursor, lock, payments, blocks, now, batch, sess, range_in, range_out,
                    hooks, webhook, jobs, api >>

\* scan_chain after asyncio.gather has returned: every task has returned
gather_commit ==
    /\ gather.pc = "gather"
    /\ gather.waiting = {} /\ gather.running = {}
    /\ cursor' = [cursor EXCEPT !["anvil"] = gather.to_block]
    /\ gather' = [gather EXCEPT !.pc = "idle"]
    /\ UNCHANGED << lock, payments, blocks, now, batch, sess, range_in, range_out,
                    hooks, webhook, jobs, api >>

InitGather ==
    /\ cursor = [c \in {"anvil"} |-> 0]
    /\ lock = [c \in {"anvil"} |-> NoWorker]
    /\ payments = [p \in Payments |-> NewRow]
    /\ blocks = [b \in Blocks |-> EmptyBlock]
    /\ now = 0
    /\ batch \in 1..MaxGatherBatch
    /\ sess = [w \in Workers |-> IdleSess]
    /\ range_in = [last_scanned_block |-> 0, latest_block |-> 0, block_batch_size |-> 1]
    /\ range_out = NoRange
    /\ hooks = {}
    /\ webhook = NoWebhook
    /\ jobs = NoJobs
    /\ api = NoApi
    /\ gather = NoGather

NextGather ==
    \/ gather_start
    \/ \E b \in 1..MaxGatherHead : task_acquire(b)
    \/ \E b \in 1..MaxGatherHead : task_release(b)
    \/ gather_commit

\* the event loop runs every task that can run, and an RPC call returns or
\* raises
FairGather ==
    /\ \A b \in 1..MaxGatherHead : WF_vars(task_acquire(b))
    /\ \A b \in 1..MaxGatherHead : WF_vars(task_release(b))
    /\ WF_vars(gather_commit)

SpecGather == InitGather /\ [][NextGather]_vars /\ FairGather

----------------------------------------------------------------------------
(* The cycles of the chain "anvil", of ScannerService and of the listener,   *)
(* over blocks that pay a deposit address of a payment of another chain:     *)
(* the deposit addresses are derived from one HD wallet for every chain, so  *)
(* an address monitored for "bsc" can receive a transfer on "anvil"          *)

ForeignBlockChoices ==
    { EmptyBlock,
      \* a native transfer on anvil to the deposit address of p3, a bsc payment
      [transactions |-> << Tx("0xe3", 2) >>, logs |-> << >>],
      \* a native transfer on anvil that pays p1
      [transactions |-> << Tx("0xAA", 2) >>, logs |-> << >>] }

InitForeign ==
    /\ cursor = [c \in Chains |-> 0]
    /\ lock = [c \in Chains |-> NoWorker]
    /\ payments = [p \in Payments |-> NewRow]
    /\ blocks \in [Blocks -> ForeignBlockChoices]
    /\ now = 0
    /\ batch = 1
    /\ sess = [w \in Workers |-> IdleSess]
    /\ range_in = [last_scanned_block |-> 0, latest_block |-> 0, block_batch_size |-> 1]
    /\ range_out = NoRange
    /\ hooks = {}
    /\ webhook = NoWebhook
    /\ jobs = NoJobs
    /\ api = NoApi
    /\ gather = NoGather

NextForeign ==
    \/ \E w \in Workers : scan_chain(w, "anvil")
    \/ \E w \in Workers : scan_chain_load(w)
    \/ \E w \in Workers, b \in Blocks : scan_single_block(w, b)
    \/ \E w \in Workers : scan_chain_commit(w)
    \/ \E w \in Workers : session_close(w)
    \/ \E w \in Workers : confirm_payments(w, "anvil")
    \/ \E w \in Workers : session_commit(w)
    \/ \E w \in Workers : listener_scan_blocks(w)
    \/ \E w \in Workers : listener_scan_load(w)
    \/ \E w \in Workers : listener_scan_block(w)
    \/ \E w \in Workers : listener_scan_commit(w)
    \/ \E w \in Workers : listener_confirm_payments(w)
    \/ \E w \in Workers : listener_confirm_commit(w)

SpecForeign == InitForeign /\ [][NextForeign]_vars

----------------------------------------------------------------------------
(* The listener's scan cycles over blocks that hold a transfer below the     *)
(* requested amount.  The chain grows and the node answers again and again:  *)
(* a cycle that can start on a non-empty range eventually does, and a block  *)
(* whose processing can succeed is eventually processed                      *)

UnderpaidBlockChoices ==
    { EmptyBlock,
      \* a transfer of 1 to the deposit address of p1, which asks for 2
      [transactions |-> << Tx("0xaa", 1) >>, logs |-> << >>],
      \* a transfer that pays p1
      [transactions |-> << Tx("0xAA", 2) >>, logs |-> << >>] }

InitStall ==
    /\ cursor = [c \in Chains |-> 0]
    /\ lock = [c \in Chains |-> NoWorker]
    /\ payments = [p \in Payments |-> NewRow]
    /\ blocks \in [Blocks -> UnderpaidBlockChoices]
    /\ now = 0
    /\ batch = 1
    /\ sess = [w \in Workers |-> IdleSess]
    /\ range_in = [last_scanned_block |-> 0, latest_block |-> 0, block_batch_size |-> 1]
    /\ range_out = NoRange
    /\ hooks = {}
    /\ webhook = NoWebhook
    /\ jobs = NoJobs
    /\ api = NoApi
    /\ gather = NoGather

NextStall ==
    \/ \E w \in Workers : listener_scan_blocks(w)
    \/ \E w \in Workers : listener_scan_load(w)
    \/ \E w \in Workers : listener_scan_block(w)
    \/ \E w \in Workers : listener_scan_commit(w)

FairStall ==
    \A w \in Workers :
        /\ WF_vars(listener_scan_blocks(w))
        /\ WF_vars(listener_scan_load(w))
        /\ WF_vars(listener_scan_block(w))
        /\ WF_vars(listener_scan_commit(w))
        \* the height query succeeds and reports a new block
        /\ SF_vars(listener_scan_load(w) /\ sess'[w].pc = "blocks")
        \* every block of a range is eventually fetched and its transactions
        \* are worked through
        /\ \A rest \in SUBSET Blocks :
              SF_vars(listener_scan_block(w) /\ sess[w].todo = rest
                                             /\ sess'[w].pc = "blocks")

SpecStall == InitStall /\ [][NextStall]_vars /\ FairStall

----------------------------------------------------------------------------
(* Properties *)

ScanOps == {"scan", "lscan"}

\* the cycle of w holds a block range it is fetching and inspecting
Scanning(w) == sess[w].op \in ScanOps /\ sess[w].pc = "blocks"
RangeOf(w) == sess[w].from_block .. sess[w].to_block

\* a transaction of the block matches the native payment p
NativeMatch(p, block) ==
    \E i \in 1..Len(block.transactions) :
        /\ block.transactions[i].to # NoAddress
        /\ Lower(block.transactions[i].to) = Lower(Payment[p].address)
        /\ block.transactions[i].value >= Payment[p].amount

\* C1: two scan cycles of one chain never fetch overlapping block ranges at
\* the same time: a cycle that holds a range holds the row lock of its chain
\* and its range starts right after the committed cursor, so the ranges of
\* two cycles in flight are disjoint (no two are in flight on one chain)
C1_ConcurrentScansDisjoint ==
    /\ \A w \in Workers :
          Scanning(w) => /\ lock[sess[w].chain] = w
                         /\ sess[w].from_block = cursor[sess[w].chain] + 1
    /\ \A w1 \in Workers, w2 \in Workers :
          (w1 # w2 /\ Scanning(w1) /\ Scanning(w2) /\ sess[w1].chain = sess[w2].chain)
              => RangeOf(w1) \cap RangeOf(w2) = {}

\* one cycle is fetching a range while a second cycle of the chain waits for the lock
C1_Witness ==
    \E w1 \in Workers, w2 \in Workers :
        /\ Scanning(w1) /\ RangeOf(w1) # {}
        /\ sess[w2].op = "scan" /\ sess[w2].pc = "lock"
        /\ sess[w2].chain = sess[w1].chain
        /\ cursor[sess[w1].chain] > 0

\* C2: the committed last_scanned_block of a chain never decreases
C2_CursorNeverDecreases ==
    [][\A c \in Chains : cursor'[c] >= cursor[c]]_vars

\* a cycle was told a height below the cursor, after the cursor had advanced
C2_Witness ==
    \E w \in Workers :
        /\ sess[w].op = "scan" /\ sess[w].pc = "returned"
        /\ sess[w].latest_block # Null
        /\ sess[w].latest_block < cursor[sess[w].chain]
        /\ cursor[sess[w].chain] = MaxHead

\* The lifecycle graph of a payment
Lifecycle ==
    { << PENDING, DETECTED >>, << DETECTED, CONFIRMED >>, << CONFIRMED, SETTLED >>,
      << PENDING, EXPIRED >>, << DETECTED, EXPIRED >>, << CONFIRMED, FAILED >> }

\* C3: the committed status of a payment changes only along the lifecycle
\* graph; SETTLED, EXPIRED and FAILED are never left
C3_StatusFollowsLifecycle ==
    [][\A p \in Payments :
          payments'[p].status # payments[p].status
              => << payments[p].status, payments'[p].status >> \in Lifecycle]_vars

\* a detection is written to p: it becomes DETECTED, or its detection block changes
DetectionWritten(p) ==
    \/ payments'[p].status = DETECTED /\ payments[p].status # DETECTED
    \/ payments'[p].detected_in_block # payments[p].detected_in_block

\* C4: a payment is detected at most once: no detection is ever written to a
\* payment that has a detection block or is DETECTED, CONFIRMED, SETTLED or
\* FAILED, whatever ranges later cycles scan, and no payment returns to PENDING
C4_DetectedOnce ==
    [][\A p \in Payments :
          /\ DetectionWritten(p)
                => /\ payments[p].detected_in_block = Null
                   /\ payments[p].status \notin {DETECTED, CONFIRMED, PAID, SETTLED, FAILED}
          /\ payments[p].status # PENDING => payments'[p].status # PENDING]_vars

\* p1 is detected and a later cycle, which does not hold p1, is about to
\* commit a range with another qualifying transfer to p1
C4_Witness ==
    \E w \in Workers :
        /\ Scanning(w) /\ sess[w].op = "scan" /\ sess[w].todo = {} /\ sess[w].failed = {}
        /\ payments["p1"].status = DETECTED
        /\ "p1" \notin Loaded(sess[w])
        /\ \E b \in RangeOf(w) : NativeMatch("p1", blocks[b])

\* C5: the detection block of a payment is written once and never overwritten
\* or cleared, neither in the database nor on the object of the cycle that
\* detects it
C5_DetectionBlockWrittenOnce ==
    [][\A p \in Payments :
          /\ payments[p].detected_in_block # Null
                => payments'[p].detected_in_block = payments[p].detected_in_block
          /\ \A w \in Workers :
                (/\ Scanning(w) /\ sess'[w].op = sess[w].op /\ sess'[w].pc = "blocks"
                 /\ sess[w].cur[p].detected_in_block # Null)
                    => sess'[w].cur[p].detected_in_block
                         = sess[w].cur[p].detected_in_block]_vars

\* C6: a cycle in which an RPC call failed commits no cursor advance
C6_NoAdvanceAfterRpcFailure ==
    [][\A c \in Chains : \A w \in Workers :
          (/\ sess[w].op \in ScanOps /\ sess[w].chain = c
           /\ lock[c] = w
           /\ (sess[w].failed # {} \/ sess[w].latest_block = Null))
              => cursor'[c] = cursor[c]]_vars

\* the detections the cycle of w has made and not yet committed
Detections(w) ==
    {p \in Payments : sess[w].cur[p].status = DETECTED /\ sess[w].orig[p].status # DETECTED}

\* C7: the cursor advance of a scan cycle and its PENDING -> DETECTED updates
\* are committed in one step or not at all: a step that makes a payment
\* DETECTED is the commit of a scan cycle and advances that cycle's cursor to
\* the end of its range, a step that advances a cursor persists every
\* detection of the cycle that advances it, and a cycle that ends without
\* advancing the cursor leaves every payment as it was
C7_CursorAndDetectionsAtomic ==
    [][/\ \A p \in Payments :
             (payments'[p].status = DETECTED /\ payments[p].status # DETECTED)
                 => \E w \in Workers :
                       /\ Scanning(w) /\ p \in Detections(w)
                       /\ cursor[sess[w].chain] < sess[w].to_block
                       /\ cursor'[sess[w].chain] = sess[w].to_block
       /\ \A c \in Chains :
             cursor'[c] # cursor[c]
                 => \A w \in Workers :
                       (Scanning(w) /\ sess[w].chain = c)
                           => \A p \in Detections(w) :
                                 /\ payments'[p].status = DETECTED
                                 /\ payments'[p].detected_in_block
                                      = sess[w].cur[p].detected_in_block
       /\ \A w \in Workers :
             (Scanning(w) /\ sess'[w].pc # "blocks"
                /\ cursor'[sess[w].chain] = cursor[sess[w].chain])
                 => payments' = payments]_vars

\* a cycle has committed a detection together with its cursor
C7_Witness ==
    /\ payments["p1"].status = DETECTED
    /\ cursor["anvil"] > 0
    /\ \E w \in Workers : sess[w].op = "scan" /\ sess[w].pc = "returned"

\* C8: a scan cycle scans exactly [c+1, min(c+b, h)], at most b blocks, and
\* leaves the cursor at min(c+b, h); h=50, c=10, b=20 gives [11, 30]
C8_ScanRange ==
    range_out.by # "none"
        => /\ range_out.from_block = range_in.last_scanned_block + 1
           /\ range_out.to_block
                = Min(range_in.last_scanned_block + range_in.block_batch_size,
                      range_in.latest_block)
           /\ range_out.to_block - range_out.from_block + 1 <= range_in.block_batch_size

\* the payments a confirmation cycle holds
ConfirmOps == {"confirm", "lconfirm"}

\* C9: a confirmation cycle promotes a DETECTED payment with detection block d
\* to CONFIRMED, storing head - d + 1, if and only if head - d + 1 is at least
\* the threshold; below it the payment is left as it is; every CONFIRMED
\* payment has a stored count of at least the threshold
C9_ConfirmationRule ==
    /\ [](\A p \in Payments :
             payments[p].status = CONFIRMED
                 => payments[p].confirmations >= confirmations_required)
    /\ [][\A w \in Workers :
             (/\ sess[w].op \in ConfirmOps
              /\ (session_commit(w) \/ listener_confirm_commit(w)))
                 => \A p \in Loaded(sess[w]) :
                       LET d == sess[w].orig[p].detected_in_block
                           n == sess[w].latest_block - d + 1
                       IN  d # Null =>
                             IF n >= confirmations_required
                             THEN /\ payments'[p].status = CONFIRMED
                                  /\ payments'[p].confirmations = n
                             ELSE payments'[p] = payments[p]]_vars

\* two confirmation cycles hold the same DETECTED payment: one saw a height
\* that reaches the threshold and promotes it, the other saw a lower height
\* and leaves it DETECTED
C9_Witness ==
    \E w1 \in Workers, w2 \in Workers :
        /\ sess[w1].op = "confirm" /\ sess[w2].op = "confirm"
        /\ sess[w1].cur["p1"].status = CONFIRMED
        /\ sess[w1].cur["p1"].confirmations = 2
        /\ sess[w2].cur["p1"].status = DETECTED
        /\ sess[w2].latest_block < sess[w2].orig["p1"].detected_in_block

\* C10: when a block task of a scan cycle completes, a native candidate payment
\* is changed only if a transaction of the block has its address, compared in
\* lower case, and a value of at least its amount, and then it is DETECTED
\* with that block as detection block; if the block was fetched and inspected
\* without error every such payment is changed.  A token payment is not
\* changed by the transactions of a block.  The committed detection block of a
\* native payment is a block with such a transaction
C10_NativeDetection ==
    [][/\ \A w \in Workers : \A b \in Blocks :
             (/\ sess[w].op = "scan" /\ sess[w].pc = "blocks"
              /\ b \in sess[w].todo /\ sess'[w].op = "scan" /\ b \notin sess'[w].todo)
                 => \A p \in Loaded(sess[w]) :
                       IF Payment[p].token_id = NoToken
                       THEN /\ sess'[w].cur[p] # sess[w].cur[p]
                                 => NativeMatch(p, blocks[b])
                            /\ (NativeMatch(p, blocks[b]) /\ b \notin sess'[w].failed)
                                 => /\ sess'[w].cur[p].status = DETECTED
                                    /\ sess'[w].cur[p].detected_in_block = b
                       ELSE blocks[b].logs = << >>
                                 => sess'[w].cur[p] = sess[w].cur[p]
       /\ \A p \in Payments :
             (/\ Payment[p].token_id = NoToken
              /\ payments'[p].detected_in_block # payments[p].detected_in_block)
                 => /\ payments'[p].detected_in_block \in Blocks
                    /\ NativeMatch(p, blocks[payments'[p].detected_in_block])]_vars

\* a cycle has inspected a block with an underpayment to p1 and a transfer to
\* the address of the token payment p2, which changed neither, and a block
\* with an exact transfer to p1's address in upper case, which detected p1
C10_Witness ==
    \E w \in Workers :
        /\ sess[w].op = "scan" /\ sess[w].pc = "blocks"
        /\ sess[w].todo = {} /\ sess[w].failed = {}
        /\ RangeOf(w) = 1..2
        /\ ~NativeMatch("p1", blocks[1])
        /\ \E i \in 1..Len(blocks[1].transactions) :
              Lower(blocks[1].transactions[i].to) = Lower(Payment["p2"].address)
        /\ sess[w].cur["p1"].status = DETECTED
        /\ sess[w].cur["p1"].detected_in_block = 2
        /\ sess[w].cur["p2"].status = PENDING

\* a Transfer log of the block matches the token payment p
ERC20Match(p, block) ==
    \E i \in 1..Len(block.logs) :
        LET log == block.logs[i] IN
        /\ Len(log.topics) >= 3
        /\ Lower(log.topics[3].low20) = Lower(Payment[p].address)
        /\ Payment[p].token_id \in Tokens
        /\ Lower(log.address) = Lower(Token[Payment[p].token_id].address)
        /\ log.data # Null /\ log.data >= Payment[p].amount

\* C11: when a block task of a scan cycle completes, a token candidate payment
\* is changed only if a Transfer log of the block has a recipient topic that
\* decodes to its address, is emitted by its token's contract and carries a
\* value of at least its amount, and then it is DETECTED with that block as
\* detection block; if the block and its logs were fetched and inspected
\* without error every such payment is changed.  A native payment is not
\* changed by the logs of a block.  The committed detection block of a token
\* payment is a block with such a log
C11_TokenDetection ==
    [][/\ \A w \in Workers : \A b \in Blocks :
             (/\ sess[w].op = "scan" /\ sess[w].pc = "blocks"
              /\ b \in sess[w].todo /\ sess'[w].op = "scan" /\ b \notin sess'[w].todo)
                 => \A p \in Loaded(sess[w]) :
                       IF Payment[p].token_id # NoToken
                       THEN /\ sess'[w].cur[p] # sess[w].cur[p]
                                 => ERC20Match(p, blocks[b])
                            /\ (ERC20Match(p, blocks[b]) /\ b \notin sess'[w].failed)
                                 => /\ sess'[w].cur[p].status = DETECTED
                                    /\ sess'[w].cur[p].detected_in_block = b
                       ELSE blocks[b].transactions = << >>
                                 => sess'[w].cur[p] = sess[w].cur[p]
       /\ \A p \in Payments :
             (/\ Payment[p].token_id # NoToken
              /\ payments'[p].detected_in_block # payments[p].detected_in_block)
                 => /\ payments'[p].detected_in_block \in Blocks
                    /\ ERC20Match(p, blocks[payments'[p].detected_in_block])]_vars

\* a cycle has inspected a block whose Transfers to p2's address come from
\* another contract or carry too small a value, which left p2 PENDING, and a
\* block whose Transfer from p2's token contract carries p2's amount, which
\* detected p2; the Transfer to p1's address left the native payment p1 PENDING
C11_Witness ==
    \E w \in Workers :
        /\ sess[w].op = "scan" /\ sess[w].pc = "blocks"
        /\ sess[w].todo = {} /\ sess[w].failed = {}
        /\ RangeOf(w) = 1..2
        /\ ~ERC20Match("p2", blocks[1]) /\ Len(blocks[1].logs) = 5
        /\ ERC20Match("p2", blocks[2])
        /\ sess[w].cur["p2"].status = DETECTED
        /\ sess[w].cur["p2"].detected_in_block = 2
        /\ sess[w].cur["p1"].status = PENDING

\* C12: a reap cycle needs no RPC call: it can run whenever a worker is free.
\* It loads exactly the PENDING or DETECTED payments whose expiry has passed,
\* of every chain, and assigns EXPIRED to each; its commit writes EXPIRED to
\* those payments, changes nothing else of them and leaves every payment it
\* did not select as it is
C12_ReapExpires ==
    /\ [](\A w \in Workers : sess[w].op = "idle" => ENABLED check_expired_payments(w))
    /\ [][\A w \in Workers :
             (sess[w].op = "idle" /\ check_expired_payments(w))
                 => LET due == {p \in Payments :
                                  /\ payments[p].status \in {PENDING, DETECTED}
                                  /\ Payment[p].expires_at <= now}
                    IN  /\ due = {} => sess'[w].op = "idle"
                        /\ due # {} =>
                              /\ sess'[w].op = "reap"
                              /\ Loaded(sess'[w]) = due
                              /\ \A p \in due : sess'[w].cur[p].status = EXPIRED
                              /\ hooks' = hooks \cup {<< p, EXPIRED >> : p \in due}]_vars
    /\ [][\A w \in Workers :
             (sess[w].op = "reap" /\ session_commit(w))
                 => \A p \in Payments :
                       IF p \in Loaded(sess[w])
                       THEN payments'[p] = [payments[p] EXCEPT !.status = EXPIRED]
                       ELSE payments'[p] = payments[p]]_vars

\* a reap cycle holds the expired DETECTED payment p1 and not p2, which is not
\* yet due, while the scan cycle of another worker got no height from its RPC
C12_Witness ==
    \E w1 \in Workers, w2 \in Workers :
        /\ sess[w1].op = "reap"
        /\ sess[w1].orig["p1"].status = DETECTED
        /\ sess[w1].cur["p1"].status = EXPIRED
        /\ "p2" \notin Loaded(sess[w1])
        /\ payments["p2"].status = PENDING
        /\ sess[w2].op = "scan" /\ sess[w2].pc = "returned"
        /\ sess[w2].latest_block = Null

\* C13: a payment becomes SETTLED only in the commit of a sweep cycle that has
\* transferred the balance of its deposit address to the treasury and seen the
\* transfer included
C13_SettledOnlyAfterTransfer ==
    [][\A p \in Payments :
          (payments'[p].status = SETTLED /\ payments[p].status # SETTLED)
              => \E w \in Workers :
                    /\ sess[w].op = "sweep"
                    /\ p \in sweep_transfers(Loaded(sess[w]))]_vars

\* C14: with a webhook URL configured, when the cycle that changes the status
\* of a payment has committed and ended, a webhook for that payment with its
\* new status has been dispatched
C14_TransitionDispatched ==
    [][\A p \in Payments :
          (webhook_url # "" /\ payments'[p].status # payments[p].status)
              => << p, payments'[p].status >> \in hooks']_vars

\* a call of send_webhook has returned
WebhookSent == webhook.pc \in {"dispatched", "custom"}

\* C15: the request send_webhook posts carries an X-Webhook-Signature header
\* if and only if a secret is given, and the header is the hex HMAC-SHA256,
\* keyed with the secret, of the bytes posted as the body
C15_SignatureOverBody ==
    (WebhookSent /\ webhook.posted)
        => LET signatures == {h \in webhook.headers : h[1] = "X-Webhook-Signature"} IN
           /\ signatures # {} <=> (webhook.secret # NoSecret /\ webhook.secret # "")
           /\ \A h \in signatures :
                 h[2] = hmac_sha256_hexdigest(encode(webhook.secret), webhook.content)
           /\ webhook.content = encode(json_dumps(webhook.payload))

\* a signed request has been posted
C15_Witness ==
    /\ WebhookSent /\ webhook.posted
    /\ webhook.secret = "k1"
    /\ << "X-Webhook-Signature",
           "hmac-sha256(bytes(k1), bytes({payment_id: p1, status: detected}))" >>
          \in webhook.headers

\* C16: send_webhook returns True if and only if the POST was made and answered
\* with a 2xx status code; otherwise it returns False; it never raises
C16_TrueIffSuccess ==
    WebhookSent
        => /\ ~webhook.raised
           /\ webhook.result <=>
                 /\ webhook.posted
                 /\ webhook.outcome.kind = "response"
                 /\ webhook.outcome.status_code \in 200..299

\* a POST answered with a redirect has returned False
C16_Witness ==
    /\ WebhookSent /\ webhook.posted
    /\ webhook.outcome = Response(302)
    /\ ~webhook.result /\ ~webhook.raised

\* failures a later attempt can cure, and failures it cannot
RetryableOutcomes ==
    {o \in PostOutcomes : o.kind # "response" \/ o.status_code \in 500..599}
PermanentOutcomes ==
    {o \in PostOutcomes : o.kind = "response" /\ o.status_code \in 400..499}

\* C17: what send_webhook returns for a network error or a 5xx response differs
\* from what it returns for a 4xx response
C17_FailureKindsDistinguished ==
    (WebhookSent /\ webhook.posted /\ webhook.outcome \in RetryableOutcomes)
        => \A o \in PermanentOutcomes :
              send_webhook(webhook.payload, webhook.secret, o).result # webhook.result

\* C18: once the retry job has run its cycles, a webhook of a payment event
\* whose delivery failed with a network error or a 5xx response has been
\* attempted again
C18_FailedDeliveryReattempted ==
    (/\ webhook.pc = "dispatched" /\ webhook.posted /\ ~webhook.result
     /\ webhook.outcome \in RetryableOutcomes
     /\ webhook.retry_cycles = MaxRetryCycles)
        => webhook.attempts >= 2

\* C19: when a run of sweep_funds has ended, the sweep cycle of every enabled
\* chain has run to completion, except that of a chain whose own cycle raised
C19_ChainFailureContained ==
    jobs.sweep.pc \in {"done", "raised"}
        => \A c \in EnabledChains : c \in jobs.sweep.ran \cup jobs.sweep.raised

\* C20: when a run of listen_for_payments has ended without an exception, a
\* scan cycle and then a confirmation cycle have run for every configured chain
C20_EveryChainScanned ==
    (jobs.listen.pc = "done" /\ jobs.listen.raised = {})
        => \A c \in EnabledChains : c \in jobs.listen.scanned /\ c \in jobs.listen.confirmed


\* C21: under the scheduler, a payment that is PENDING or DETECTED when its
\* expiry has passed eventually leaves these two statuses (it becomes EXPIRED,
\* or is confirmed first), whether or not the RPC answers
C21_ExpiredEventually ==
    \A p \in Payments :
        (payments[p].status \in {PENDING, DETECTED} /\ Payment[p].expires_at <= now)
            ~> (payments[p].status \notin {PENDING, DETECTED})


\* C22: a scan cycle of a chain that has no chain_states row does not return
\* as a completed cycle: it ends with an error, and it changes no payment and
\* no cursor
C22_UnseededScanFails ==
    [][\A w \in Workers :
          (/\ sess[w].op = "scan" /\ sess[w].pc = "lock"
           /\ ~has_chain_state(sess[w].chain)
           /\ sess'[w] # sess[w])
              => /\ sess'[w].pc # "returned"
                 /\ cursor' = cursor
                 /\ payments' = payments]_vars


\* C23: no two payments the API has created have the same derivation index or
\* the same deposit address
C23_DistinctIndexes ==
    /\ \A i \in DOMAIN api.hd : \A j \in DOMAIN api.hd :
          i # j => /\ api.hd[i].index # api.hd[j].index
                   /\ api.hd[i].address # api.hd[j].address
    /\ \A i \in DOMAIN api.created : \A j \in DOMAIN api.created :
          i # j => api.created[i].address # api.created[j].address


\* C24: a scan cycle whose block range is not empty and that returns leaves
\* the cursor of its chain at the end of the range: at the commit after the block
\* tasks, whatever they matched or failed to fetch, and, when the chain has no
\* PENDING payment, in the step that computes the range, without a block task
C24_CursorAdvancesRegardless ==
    [][\A w \in Workers :
          /\ (/\ sess[w].op = "scan" /\ sess[w].pc = "blocks"
              /\ sess'[w].op = "scan" /\ sess'[w].pc = "returned")
                => /\ sess[w].from_block <= sess[w].to_block
                   /\ cursor'[sess[w].chain] = sess[w].to_block
          /\ (/\ sess[w].op = "scan" /\ sess[w].pc = "lock"
              /\ has_chain_state(sess[w].chain)
              /\ sess'[w].op = "scan" /\ sess'[w].pc = "returned"
              /\ sess'[w].from_block <= sess'[w].to_block)
                => /\ pending_payments(sess[w].chain) = {}
                   /\ cursor'[sess[w].chain] = sess'[w].to_block
                   /\ sess'[w].to_block > cursor[sess[w].chain]
                   /\ payments' = payments]_vars

\* a cycle has committed a range in which p2 was detected and nothing matched
\* p1, and after p1 expired a cycle that found no PENDING payment has returned
\* with the cursor at the end of its range
C24_Witness ==
    \E w \in Workers :
        /\ sess[w].op = "scan" /\ sess[w].pc = "returned"
        /\ sess[w].from_block = 2 /\ sess[w].to_block = 2
        /\ cursor[sess[w].chain] = 2
        /\ payments["p1"].status = EXPIRED
        /\ payments["p1"].detected_in_block = Null
        /\ payments["p2"].status = DETECTED


\* C25: a sweep cycle loads every CONFIRMED payment of its chain; a payment
\* whose sweep raised keeps its status, every other payment of the cycle is
\* assigned SETTLED, and the commit of the cycle writes SETTLED to exactly
\* those and nothing to the payments whose sweep raised
C25_SweepFailureIsolated ==
    /\ [][\A w \in Workers :
             (sess[w].op = "idle" /\ sess'[w].op = "sweep")
                 => /\ Loaded(sess'[w]) = confirmed_payments(sess'[w].chain)
                    /\ sess'[w].failed \subseteq Loaded(sess'[w])
                    /\ \A p \in Loaded(sess'[w]) :
                          IF p \in sess'[w].failed
                          THEN sess'[w].cur[p] = payments[p]
                          ELSE sess'[w].cur[p].status = SETTLED]_vars
    /\ [][\A w \in Workers :
             (sess[w].op = "sweep" /\ session_commit(w))
                 => \A p \in Loaded(sess[w]) :
                       IF p \in sess[w].failed
                       THEN payments'[p] = payments[p]
                       ELSE payments'[p].status = SETTLED]_vars

\* a sweep cycle holds two CONFIRMED payments: the sweep of p1 raised and p1 is
\* still CONFIRMED, p2 is assigned SETTLED
C25_Witness ==
    \E w \in Workers :
        /\ sess[w].op = "sweep"
        /\ sess[w].failed = {"p1"}
        /\ sess[w].cur["p1"].status = CONFIRMED
        /\ sess[w].orig["p2"].status = CONFIRMED
        /\ sess[w].cur["p2"].status = SETTLED


\* C26: once add_chain_states has run, every configured chain has its
\* chain_states row; a run of it leaves every row it finds as it is, and a row
\* it creates is the row of a configured chain that had none, at block 0
C26_SeedOncePerChain ==
    /\ [](jobs.startup.runs > 0 => \A c \in get_blockchains : has_chain_state(c))
    /\ [][add_chain_states
             => /\ \A c \in DOMAIN cursor :
                      c \in DOMAIN cursor' /\ cursor'[c] = cursor[c]
                /\ \A c \in DOMAIN cursor' \ DOMAIN cursor :
                      c \in get_blockchains /\ cursor'[c] = 0]_vars

\* add_chain_states has run again after a scan had advanced the cursor of anvil,
\* which is where the scan left it
C26_Witness ==
    /\ jobs.startup.runs = 2
    /\ jobs.startup.found_scanned
    /\ DOMAIN cursor = {"anvil", "sepolia"}
    /\ cursor["anvil"] = 2


\* C27: a worker whose call of scan_chain has returned holds no row lock
C27_LockReleasedOnReturn ==
    \A w \in Workers :
        (sess[w].op = "scan" /\ sess[w].pc = "returned")
            => \A c \in DOMAIN lock : lock[c] # w


\* C28: when a block task of a scan cycle completes and the block and its logs
\* were fetched, every token candidate payment that a Transfer log of the
\* block pays is DETECTED in that block, whatever other logs the block holds;
\* and the task ends no other task of the range
C28_ItemFailureSkipsItem ==
    [][\A w \in Workers : \A b \in Blocks :
          (/\ sess[w].op = "scan" /\ sess[w].pc = "blocks"
           /\ b \in sess[w].todo /\ sess'[w].op = "scan" /\ b \notin sess'[w].todo)
              => /\ sess'[w].pc = "blocks" /\ sess'[w].todo = sess[w].todo \ {b}
                 /\ b \in sess'[w].fetched
                       => \A p \in Loaded(sess[w]) :
                             (Payment[p].token_id # NoToken /\ ERC20Match(p, blocks[b]))
                                 => /\ sess'[w].cur[p].status = DETECTED
                                    /\ sess'[w].cur[p].detected_in_block = b]_vars


C30_CursorOnlyByOwnScan ==
    [][/\ DOMAIN cursor \subseteq DOMAIN cursor'
       /\ \A c \in DOMAIN cursor :
             cursor'[c] # cursor[c]
                => \E w \in Workers :
                      /\ sess[w].op = "scan" /\ sess[w].chain = c
                      /\ sess'[w] # sess[w]
                      /\ \A v \in Workers \ {w} : sess'[v] = sess[v]]_vars

\* two chains have a row, the scan of one chain has advanced its cursor, and
\* confirmation and sweep cycles have run: one payment is SETTLED
C30_Witness ==
    /\ {"anvil", "sepolia"} \subseteq DOMAIN cursor
    /\ cursor["anvil"] > 0 /\ cursor["sepolia"] = 0
    /\ \E p \in Payments : payments[p].status = SETTLED


\* C31: in every committed state a payment that has a detection block has it
\* at or below the last_scanned_block of its chain
C31_DetectionBehindCursor ==
    \A p \in Payments :
        payments[p].detected_in_block # Null
            => /\ has_chain_state(Payment[p].chain)
               /\ payments[p].detected_in_block <= cursor[Payment[p].chain]

\* a payment is committed as detected in the very block the cursor stands on
C31_Witness ==
    \E p \in Payments :
        /\ payments[p].status = DETECTED
        /\ payments[p].detected_in_block # Null
        /\ has_chain_state(Payment[p].chain)
        /\ payments[p].detected_in_block = cursor[Payment[p].chain]


\* C32: every payment whose committed status is DETECTED, CONFIRMED or SETTLED
\* has a detection block
C32_DetectedHasBlock ==
    \A p \in Payments :
        payments[p].status \in {DETECTED, CONFIRMED, SETTLED}
            => payments[p].detected_in_block # Null


\* the blocks of the range of w's scan cycle that hold a qualifying transfer
\* to the native payment p
QualifyingBlocks(w, p) == {b \in RangeOf(w) : NativeMatch(p, blocks[b])}

\* C33: when a scan cycle whose block tasks all succeeded commits, a native
\* candidate payment with qualifying transfers in several blocks of the range
\* is committed with the lowest of those blocks as its detection block,
\* whatever the order in which the block tasks completed
C33_LowestBlockRecorded ==
    [][\A w \in Workers :
          (/\ sess[w].op = "scan" /\ sess[w].pc = "blocks" /\ sess[w].todo = {}
           /\ sess[w].failed = {}
           /\ sess'[w].pc = "returned")
              => \A p \in native_payments(sess[w]) :
                    QualifyingBlocks(w, p) # {}
                       => \A b \in QualifyingBlocks(w, p) :
                             payments'[p].detected_in_block <= b]_vars


\* C34: when a cycle's session ends, by its commit or by the termination of
\* its job, every status it assigned and notified is the committed status of
\* that payment: no notification is out for a status that was rolled back
C34_NotifiedOnlyIfCommitted ==
    [][\A w \in Workers :
          (Loaded(sess[w]) # {} /\ Loaded(sess'[w]) = {})
             => \A p \in Loaded(sess[w]) :
                   (/\ sess[w].cur[p].status # sess[w].orig[p].status
                    /\ << p, sess[w].cur[p].status >> \in hooks)
                      => payments'[p].status = sess[w].cur[p].status]_vars


\* the open confirmation cycles that have promoted p to CONFIRMED, and the
\* open reap cycles that have expired it; each has dispatched its notification
Promoting(p) ==
    {w \in Workers : /\ sess[w].op = "confirm"
                     /\ sess[w].orig[p].status = DETECTED
                     /\ sess[w].cur[p].status = CONFIRMED}
Reaping(p) ==
    {w \in Workers : /\ sess[w].op = "reap"
                     /\ sess[w].orig[p] # NotLoaded
                     /\ sess[w].cur[p].status = EXPIRED}

\* C35: of the confirmation cycles that run at the same time at most one
\* promotes and notifies a given payment, and of the reap cycles at most one
\* expires and notifies it
C35_PromotedByOneCycle ==
    \A p \in Payments :
        /\ Cardinality(Promoting(p)) <= 1
        /\ Cardinality(Reaping(p)) <= 1


\* C36: a cycle assigns DETECTED or CONFIRMED to a payment only while the
\* payment's expires_at is still ahead of the clock
C36_ExpiredNeverPromoted ==
    [][\A w \in Workers : \A p \in Payments :
          (/\ sess'[w].cur[p].status \in {DETECTED, CONFIRMED}
           /\ sess'[w].cur[p].status # sess[w].cur[p].status
           /\ sess'[w].orig[p].status # sess'[w].cur[p].status)
              => Payment[p].expires_at > now]_vars


\* C37: a scan or confirmation cycle, of ScannerService or of the listener,
\* changes the committed row of a payment only if the payment's chain is the
\* chain the cycle works
C37_OnlyOwnChainPayments ==
    [][\A p \in Payments :
          payments'[p] # payments[p]
             => \E w \in Workers :
                   /\ sess[w].op # "idle" /\ sess'[w] # sess[w]
                   /\ sess[w].chain = Payment[p].chain]_vars


\* C38: whatever block 1 holds, a transfer below the requested amount
\* included, the scan cycles eventually commit a cursor at or past it, and a
\* payment that was only underpaid is still PENDING
C38_UnderpaymentDoesNotStall ==
    /\ <>(cursor["anvil"] >= 1)
    /\ [](\A p \in Payments :
             (payments[p].status # PENDING)
                => \E b \in Blocks : NativeMatch(p, blocks[b]))


\* the open sweep cycles that have selected p as CONFIRMED and swept it
Sweeping(p) ==
    {w \in Workers : /\ sess[w].op = "sweep"
                     /\ sess[w].orig[p].status = CONFIRMED
                     /\ sess[w].cur[p].status = SETTLED}

\* C39: of the sweep cycles that run at the same time at most one selects and
\* sweeps a given CONFIRMED payment
C39_SweptByOneCycle ==
    \A p \in Payments : Cardinality(Sweeping(p)) <= 1

====
